---- MODULE Spec2Model ----
(***************************************************************************)
(* build.js: the static-site build pipeline of pptr.dev.                   *)
(*                                                                         *)
(* The script is a platform guard followed by one async function that      *)
(* awaits generateVersion() and then six `step(name, callback)` calls.     *)
(* The output directory (DST_PATH, docs/) is modelled as a function from   *)
(* relative paths (tuples of path segments) to file contents (tuples of    *)
(* tokens); the tools the script calls are modelled by the arguments the   *)
(* script passes them and by the outcomes (resolve / reject / error        *)
(* object) the script distinguishes.                                       *)
(***************************************************************************)
EXTENDS Integers, Sequences, FiniteSets, TLC

\* ---------------------------------------------------------------- bounds
\* Longest list of <link rel=stylesheet> elements of the source index.html.
MaxLinks == 3
\* Longest list of paths one glob call returns.
MaxGlob == 2

VARIABLES
  platform,       \* os.platform()
  rejectionMode,  \* what the runtime does with an unhandled rejection
  prior,          \* DST_PATH as it was before the run
  dst,            \* DST_PATH now
  pc,             \* where the process is
  cur,            \* the step the async function is at (1..6)
  started,        \* the steps whose console.time has run, in order
  finished,       \* the steps whose console.timeEnd has run, in order
  running,        \* the steps whose callback is in progress
  BUILD_VERSION,  \* <<>> until generateVersion resolved
  browserOpen,    \* a browser launched by pptr.launch() and not closed
  exitCode,       \* -1 while the process runs
  donePrinted,    \* the "Build ... is done" line was printed
  written,        \* the paths written to DST_PATH in this run
  minifyError,    \* UglifyJS.minify returned result.error
  gitFailed,      \* execAsync('git log ...') rejected
  globbed,        \* what the three globAsync calls returned
  cssoInput,      \* the first argument given to csso.minify
  srcLinks,       \* the stylesheet links of the source index.html
  manifest,       \* the precache manifest injected into sw.js
  count           \* the count injectManifest reported (-1: none)

vars == <<platform, rejectionMode, prior, dst, pc, cur, started, finished,
          running, BUILD_VERSION, browserOpen, exitCode, donePrinted, written,
          minifyError, gitFailed, globbed, cssoInput, srcLinks, manifest, count>>

\* ------------------------------------------------------------ file system
CNAME == <<"CNAME">>
INDEX_JS == <<"index.js">>
STYLE_CSS == <<"style.css">>
INDEX_HTML == <<"index.html">>
SW_JS == <<"sw.js">>
IMAGES == <<"images">>
FAVICONS == <<"favicons">>

\* The content of an entry that is a directory, and of a file left by an
\* earlier build.
DirContent == <<"<dir>">>
PriorContent == <<"<prior>">>

EmptyDir == [p \in {} |-> <<>>]

\* fs.writeFileSync(path.join(DST_PATH, p), c) / a copy into DST_PATH.
Put(dir, p, c) == [q \in DOMAIN dir \cup {p} |-> IF q = p THEN c ELSE dir[q]]

IsFile(dir, p) == p \in DOMAIN dir /\ dir[p] # DirContent
Files(dir) == {p \in DOMAIN dir : IsFile(dir, p)}
TopLevel(dir) == {<<p[1]>> : p \in DOMAIN dir}

\* Bytes of a CNAME file: "d" stands for an ASCII byte, "FF" for a byte that is
\* no valid UTF-8, "EF" "BF" "BD" for the encoding of U+FFFD.
IsAscii(b) == b = "d"

\* fs.readFileSync(path, 'utf8'): a byte that is no valid UTF-8 decodes to the
\* replacement character U+FFFD.
RECURSIVE Utf8Decode(_)
Utf8Decode(bytes) ==
  IF bytes = <<>> THEN <<>>
  ELSE IF Len(bytes) >= 3 /\ SubSeq(bytes, 1, 3) = <<"EF", "BF", "BD">>
       THEN <<"U+FFFD">> \o Utf8Decode(SubSeq(bytes, 4, Len(bytes)))
  ELSE IF IsAscii(Head(bytes)) THEN <<Head(bytes)>> \o Utf8Decode(Tail(bytes))
  ELSE <<"U+FFFD">> \o Utf8Decode(Tail(bytes))

\* fs.writeFileSync(path, text, 'utf8')
RECURSIVE Utf8Encode(_)
Utf8Encode(text) ==
  IF text = <<>> THEN <<>>
  ELSE (IF Head(text) = "U+FFFD" THEN <<"EF", "BF", "BD">> ELSE <<Head(text)>>)
       \o Utf8Encode(Tail(text))

\* A JavaScript value that is null or a string: null and '' are falsy.
Null == [isNull |-> TRUE, text |-> <<>>]
Str(t) == [isNull |-> FALSE, text |-> t]
Truthy(v) == ~v.isNull /\ v.text # <<>>

\* ----------------------------------------------------------------- inputs
Platforms == {"linux", "win32"}
\* "throw": an unhandled rejection ends the process with status 1 (Node 15+);
\* "warn": it prints a warning and the process ends with status 0 once the
\* event loop is empty (Node before 15).
RejectionModes == {"throw", "warn"}
Revs == {"abc1234"}
CnameContents == {<<>>, <<"d">>, <<"d", "FF">>}
\* What an earlier build and a stray file left in DST_PATH.
StaleDir ==
  [p \in {<<"old.html">>, INDEX_JS, SW_JS, IMAGES, <<"images", "old.png">>} |->
     IF p = IMAGES THEN DirContent ELSE PriorContent]

PriorDirs ==
  {EmptyDir, StaleDir}
  \cup {Put(d, CNAME, c) : d \in {EmptyDir, StaleDir}, c \in CnameContents}

Steps == 1..6

Init ==
  /\ platform \in Platforms
  /\ rejectionMode \in RejectionModes
  /\ prior \in PriorDirs
  /\ dst = prior
  /\ pc = "Main"
  /\ cur = 0
  /\ started = <<>>
  /\ finished = <<>>
  /\ running = {}
  /\ BUILD_VERSION = <<>>
  /\ browserOpen = FALSE
  /\ exitCode = -1
  /\ donePrinted = FALSE
  /\ written = {}
  /\ minifyError = FALSE
  /\ gitFailed = FALSE
  /\ globbed = <<>>
  /\ cssoInput = <<>>
  /\ srcLinks = <<>>
  /\ manifest = {}
  /\ count = -1

\* ------------------------------------------------------------ the process
\* process.exit(1)
Exit1 ==
  /\ pc' = "Exited"
  /\ exitCode' = 1
  /\ running' = {}

\* A rejection nothing handles: the async function of line 30 has no catch, so
\* a rejected await rejects its promise and the runtime decides.
Reject ==
  /\ pc' = "Failed"
  /\ exitCode' = IF rejectionMode = "throw" THEN 1 ELSE 0
  /\ running' = {}

\* The platform guard without its process.exit.
PlatformGuardNoExit ==
  /\ pc = "Main"
  /\ pc' = "GenVersion"
  /\ UNCHANGED <<exitCode, running>>

PlatformGuard ==
  /\ pc = "Main"
  /\ IF platform = "win32"
       THEN Exit1
       ELSE /\ pc' = "GenVersion"
            /\ UNCHANGED <<exitCode, running>>

Main ==
  /\ PlatformGuard
  /\ UNCHANGED <<platform, rejectionMode, prior, dst, cur, started, finished,
                 BUILD_VERSION, browserOpen, donePrinted, written, minifyError,
                 gitFailed, globbed, cssoInput, srcLinks, manifest, count>>

\* const BUILD_VERSION = await generateVersion();
generateVersion ==
  /\ pc = "GenVersion"
  /\ \/ /\ gitFailed' = TRUE
        /\ Reject
        /\ UNCHANGED <<BUILD_VERSION, cur>>
     \/ /\ \E stdout \in Revs : BUILD_VERSION' = <<"semver", "+", stdout>>
        /\ pc' = "Ready"
        /\ cur' = 1
        /\ UNCHANGED <<gitFailed, exitCode, running>>
  /\ UNCHANGED <<platform, rejectionMode, prior, dst, started, finished,
                 browserOpen, donePrinted, written, minifyError, globbed,
                 cssoInput, srcLinks, manifest, count>>

\* `await step(...)` of a step that does not wait for the one before it.
CanBeginNoAwait(i) ==
  pc \in {"Ready", "Running"} /\ i \in {cur, cur + 1} /\ i \notin running

\* The async function reaches `await step(i, ...)` only after the awaits before
\* it resolved.
CanBegin(i) == pc = "Ready" /\ cur = i

\* step(): console.time(name), then the callback is called.
stepBegin ==
  /\ \E i \in Steps :
       /\ CanBegin(i)
       /\ started' = Append(started, i)
       /\ running' = running \cup {i}
  /\ pc' = "Running"
  /\ UNCHANGED <<platform, rejectionMode, prior, dst, cur, finished,
                 BUILD_VERSION, browserOpen, exitCode, donePrinted, written,
                 minifyError, gitFailed, globbed, cssoInput, srcLinks, manifest,
                 count>>

\* step(): the callback resolved; console.timeEnd(name), and the async function
\* goes on to its next statement.
stepEnd ==
  /\ pc = "Ending"
  /\ finished' = Append(finished, cur)
  /\ running' = running \ {cur}
  /\ IF cur = 6 THEN pc' = "Finish" /\ cur' = cur
                ELSE pc' = "Ready" /\ cur' = cur + 1
  /\ UNCHANGED <<platform, rejectionMode, prior, dst, started, BUILD_VERSION,
                 browserOpen, exitCode, donePrinted, written, minifyError,
                 gitFailed, globbed, cssoInput, srcLinks, manifest, count>>

\* ------------------------------------------------ 1. cleanup output folder
\* rimraf that removes nothing.
RimrafKeeps(dir) == dir

\* rimraf(DST_PATH) followed by fs.mkdirSync(DST_PATH): an empty directory.
Rimraf(dir) == EmptyDir

CleanupOutputFolder ==
  /\ pc = "Running" /\ cur = 1
  /\ LET cnameText == IF CNAME \in DOMAIN dst
                        THEN Str(Utf8Decode(dst[CNAME])) ELSE Null
     IN \/ \* rmAsync rejects, having removed some of the entries
           /\ \E kept \in SUBSET DOMAIN dst : dst' = [p \in kept |-> dst[p]]
           /\ Reject
           /\ UNCHANGED written
        \/ /\ IF Truthy(cnameText)
                THEN /\ dst' = Put(Rimraf(dst), CNAME, Utf8Encode(cnameText.text))
                     /\ written' = written \cup {CNAME}
                ELSE /\ dst' = Rimraf(dst)
                     /\ UNCHANGED written
           /\ pc' = "Ending"
           /\ UNCHANGED <<exitCode, running>>
  /\ UNCHANGED <<platform, rejectionMode, prior, cur, started, finished,
                 BUILD_VERSION, browserOpen, donePrinted, minifyError,
                 gitFailed, globbed, cssoInput, srcLinks, manifest, count>>

\* ---------------------------------------------------- 2. generate index.js
JsHeader == "/* THIS FILE IS GENERATED BY build.js */"

\* result.error set, and the script going on as if it were not.
MinifyErrorIgnored ==
  /\ dst' = Put(dst, INDEX_JS, <<JsHeader, "window.__WEBSITE_VERSION__ = ">>
                                 \o BUILD_VERSION \o <<"undefined">>)
  /\ written' = written \cup {INDEX_JS}
  /\ pc' = "Ending"
  /\ UNCHANGED <<exitCode, running>>

\* if (result.error) { console.error(...); process.exit(1); return; }
MinifyErrorExit ==
  /\ Exit1
  /\ UNCHANGED <<dst, written>>

GenerateIndexJs ==
  /\ pc = "Running" /\ cur = 2
  /\ \/ \* rollup.rollup or bundle.generate rejects
        /\ Reject
        /\ UNCHANGED <<dst, written, minifyError>>
     \/ /\ minifyError' = TRUE
        /\ MinifyErrorExit
     \/ /\ dst' = Put(dst, INDEX_JS, <<JsHeader, "window.__WEBSITE_VERSION__ = ">>
                                       \o BUILD_VERSION \o <<"result.code">>)
        /\ written' = written \cup {INDEX_JS}
        /\ pc' = "Ending"
        /\ UNCHANGED <<exitCode, running, minifyError>>
  /\ UNCHANGED <<platform, rejectionMode, prior, cur, started, finished,
                 BUILD_VERSION, browserOpen, donePrinted, gitFailed, globbed,
                 cssoInput, srcLinks, manifest, count>>

\* --------------------------------------------------- 3. generate style.css
CssBanner == "/* THIS FILE IS GENERATED BY build.js */"
NL == "\n"

\* The stylesheets of SRC_PATH, by the pattern that matches them.
UiCss == {<<"ui", "a.css">>, <<"ui", "b.css">>}
PptrCss == {<<"pptr", "p.css">>}
ThirdPartyCss == {<<"third_party", "t.css">>}

\* fs.readFileSync(stylePath, 'utf8') of a stylesheet under SRC_PATH.
ReadStyle(stylePath) ==
  CASE stylePath = <<"src", "ui", "a.css">> -> <<".a{}", NL, ".b{}">>
    [] stylePath = <<"src", "ui", "b.css">> -> <<".c{}", NL>>
    [] stylePath = <<"src", "pptr", "p.css">> -> <<".p{}">>
    [] OTHER -> <<".a{}", ".t{}">>

\* What glob(pattern, {cwd}) can hand its callback: the files of `pool` that
\* exist, in the order the matcher chose.
GlobResults(pool) ==
  {fs \in UNION {[1..n -> pool] : n \in 0..MaxGlob} :
     \A i, j \in 1..Len(fs) : i # j => fs[i] # fs[j]}

\* globAsync: files.map(file => path.join(cwd, file))
globAsync(cwd, files) == [i \in 1..Len(files) |-> <<cwd>> \o files[i]]

\* The three push calls in another order.
StylePathsPptrFirst(ui, pptr, third) ==
  globAsync("src", pptr) \o globAsync("src", ui) \o globAsync("src", third)

\* stylePaths after the three stylePaths.push(...(await globAsync(...)))
StylePaths(ui, pptr, third) ==
  globAsync("src", ui) \o globAsync("src", pptr) \o globAsync("src", third)

\* Array.prototype.join of an array of strings
RECURSIVE Join(_, _)
Join(strs, sep) ==
  IF strs = <<>> THEN <<>>
  ELSE IF Len(strs) = 1 THEN strs[1]
  ELSE strs[1] \o <<sep>> \o Join(Tail(strs), sep)

RECURSIVE DropRepeated(_)
DropRepeated(rules) ==
  IF rules = <<>> THEN <<>>
  ELSE LET rest == DropRepeated(Tail(rules))
       IN IF \E i \in 1..Len(rest) : rest[i] = Head(rules)
            THEN rest ELSE <<Head(rules)>> \o rest

\* csso.minify(css, {restructure}).css: white space goes; with restructuring a
\* rule repeated later is merged into its last occurrence.
CssoMinify(css, restructure) ==
  LET rules == SelectSeq(css, LAMBDA t : t # NL)
  IN IF restructure THEN DropRepeated(rules) ELSE rules

GenerateStyleCss ==
  /\ pc = "Running" /\ cur = 3
  /\ \E ui \in GlobResults(UiCss), pptr \in GlobResults(PptrCss),
        third \in GlobResults(ThirdPartyCss) :
       /\ globbed' = [ui |-> ui, pptr |-> pptr, third |-> third]
       /\ \/ \* a globAsync call rejects
             /\ Reject
             /\ UNCHANGED <<dst, written, cssoInput>>
          \/ LET stylePaths == StylePaths(ui, pptr, third)
                 styles == [i \in 1..Len(stylePaths) |-> ReadStyle(stylePaths[i])]
                 joined == Join(styles, NL)
                 styleContent == <<CssBanner>> \o CssoMinify(joined, FALSE)
             IN /\ cssoInput' = joined
                /\ dst' = Put(dst, STYLE_CSS, styleContent)
                /\ written' = written \cup {STYLE_CSS}
                /\ pc' = "Ending"
                /\ UNCHANGED <<exitCode, running>>
  /\ UNCHANGED <<platform, rejectionMode, prior, cur, started, finished,
                 BUILD_VERSION, browserOpen, donePrinted, minifyError,
                 gitFailed, srcLinks, manifest>>
  /\ UNCHANGED count

\* -------------------------------------------------- 4. generate index.html
HtmlBanner == "<!-- THIS FILE IS GENERATED BY build.js -->"
StyleHref == <<"/style.css">>

\* A line of the page: a <link rel=stylesheet> element with its href attribute
\* (<<>>: none), a blank line, or other markup.
Link(href) == [tag |-> "link", href |-> href]
Blank == [tag |-> "blank", href |-> <<>>]
Markup(t) == [tag |-> t, href |-> <<>>]

\* href attributes: relative, absolute with another origin, absent.
HrefPool == {<<"ui/a.css">>, <<"https://", "cdn/c.css">>, <<>>}
Schemes == {"file://", "https://", "http://"}

LinkSeqs == UNION {[1..n -> {Link(h) : h \in HrefPool}] : n \in 0..MaxLinks}

\* The source index.html with these stylesheet links.
Page(links) == <<Markup("<head>"), Blank>> \o links \o <<Blank, Markup("<body>")>>

\* link.href: the attribute resolved against the document's URL, which is
\* 'file://' + SRC_PATH + '/index.html'; '' without the attribute.
ResolveHref(href) ==
  IF href = <<>> THEN <<>>
  ELSE IF Head(href) \in Schemes THEN href
  ELSE <<"file://", "src/">> \o href

\* link.href.startsWith('file://')
StartsWithFile(url) == url # <<>> /\ Head(url) = "file://"

\* A filter that keeps every stylesheet link.
EveryLink(page) == {i \in 1..Len(page) : page[i].tag = "link"}

\* $$('link[rel=stylesheet]').filter(link => link.href.startsWith('file://')),
\* as positions in the page
SameOriginLinks(page) ==
  {i \in 1..Len(page) :
     page[i].tag = "link" /\ StartsWithFile(ResolveHref(page[i].href))}

Min(S) == CHOOSE x \in S : \A y \in S : x <= y

RECURSIVE Without(_, _, _)
Without(page, drop, i) ==
  IF i > Len(page) THEN <<>>
  ELSE (IF i \in drop THEN <<>> ELSE <<page[i]>>) \o Without(page, drop, i + 1)

\* The page after the callback given to page.evaluate, whose `links` is not
\* empty: links.shift().href = '/style.css'; links.forEach(link => link.remove())
Evaluate(page) ==
  LET links == SameOriginLinks(page)
      first == Min(links)
      set == [page EXCEPT ![first].href = StyleHref]
  IN Without(set, links \ {first}, 1)

\* (await page.content()).split('\n').filter(line => !/^\s*$/.test(line))
NonBlankLines(page) == SelectSeq(page, LAMBDA l : l.tag # "blank")

GenerateIndexHtml ==
  /\ pc = "Running" /\ cur = 4
  /\ \E links \in LinkSeqs :
       /\ srcLinks' = links
       /\ \/ \* pptr.launch rejects
             /\ browserOpen' = FALSE
             /\ Reject
             /\ UNCHANGED <<dst, written>>
          \/ \* browser.pages, page.setJavaScriptEnabled or page.goto rejects
             /\ browserOpen' = TRUE
             /\ Reject
             /\ UNCHANGED <<dst, written>>
          \/ \* links is empty: links.shift() is undefined, the callback throws
             \* and page.evaluate rejects
             /\ SameOriginLinks(Page(links)) = {}
             /\ browserOpen' = TRUE
             /\ Reject
             /\ UNCHANGED <<dst, written>>
          \/ \* page.content rejects
             /\ SameOriginLinks(Page(links)) # {}
             /\ browserOpen' = TRUE
             /\ Reject
             /\ UNCHANGED <<dst, written>>
          \/ \* browser.close resolved, fs.writeFileSync throws
             /\ SameOriginLinks(Page(links)) # {}
             /\ browserOpen' = FALSE
             /\ Reject
             /\ UNCHANGED <<dst, written>>
          \/ /\ SameOriginLinks(Page(links)) # {}
             /\ LET indexContent ==
                      <<Markup(HtmlBanner)>> \o NonBlankLines(Evaluate(Page(links)))
                IN dst' = Put(dst, INDEX_HTML, indexContent)
             /\ written' = written \cup {INDEX_HTML}
             /\ browserOpen' = FALSE
             /\ pc' = "Ending"
             /\ UNCHANGED <<exitCode, running>>
  /\ UNCHANGED <<platform, rejectionMode, prior, cur, started, finished,
                 BUILD_VERSION, donePrinted, minifyError, gitFailed, globbed,
                 cssoInput, manifest, count>>

\* -------------------------------------------- 5. copy images and favicons
\* What src/images and src/favicons can hold.
ImagePool == {<<"a.png">>, <<"CNAME">>}
FaviconPool == {<<"favicon.ico">>}
AssetContent == <<"<asset>">>

\* ncp(path.join(SRC_PATH, name), path.join(DST_PATH, name)): the directory and
\* the files under it.
cpAsync(dir, name, files) ==
  LET copied == {name \o f : f \in files}
  IN [q \in DOMAIN dir \cup {name} \cup copied |->
        IF q = name THEN DirContent
        ELSE IF q \in copied THEN AssetContent ELSE dir[q]]

CopyImagesAndFavicons ==
  /\ pc = "Running" /\ cur = 5
  /\ \E imgs \in SUBSET ImagePool, favs \in SUBSET FaviconPool :
       \/ \* the first cpAsync rejects
          /\ Reject
          /\ UNCHANGED <<dst, written>>
       \/ \* the second cpAsync rejects
          /\ dst' = cpAsync(dst, IMAGES, imgs)
          /\ written' = written \cup {IMAGES} \cup {IMAGES \o f : f \in imgs}
          /\ Reject
       \/ /\ dst' = cpAsync(cpAsync(dst, IMAGES, imgs), FAVICONS, favs)
          /\ written' = written \cup {IMAGES} \cup {IMAGES \o f : f \in imgs}
                                \cup {FAVICONS} \cup {FAVICONS \o f : f \in favs}
          /\ pc' = "Ending"
          /\ UNCHANGED <<exitCode, running>>
  /\ UNCHANGED <<platform, rejectionMode, prior, cur, started, finished,
                 BUILD_VERSION, browserOpen, donePrinted, minifyError,
                 gitFailed, globbed, cssoInput, srcLinks, manifest, count>>

\* ------------------------------------------------------- 6. generate sw.js
\* An ignore pattern that is matched against the file's name in any directory.
GlobIgnoresBaseName(p) == p[Len(p)] = "CNAME"

\* globIgnores: ['CNAME'], a path relative to globDirectory
GlobIgnores(p) == p = <<"CNAME">>

\* globPatterns: ['**/*'], files at any depth
GlobPatterns(p) == Len(p) >= 1

\* The files injectManifest lists: those of globDirectory that a pattern
\* matches and no ignore pattern does.
ManifestEntries(dir) ==
  {p \in Files(dir) : GlobPatterns(p) /\ ~GlobIgnores(p)}

GenerateSwJs ==
  /\ pc = "Running" /\ cur = 6
  /\ \/ \* injectManifest rejects
        /\ Reject
        /\ UNCHANGED <<dst, written, manifest, count>>
     \/ /\ manifest' = ManifestEntries(dst)
        /\ count' = Cardinality(ManifestEntries(dst))
        /\ dst' = Put(dst, SW_JS, <<"sw-template.js", "<manifest>">>)
        /\ written' = written \cup {SW_JS}
        /\ pc' = "Ending"
        /\ UNCHANGED <<exitCode, running>>
  /\ UNCHANGED <<platform, rejectionMode, prior, cur, started, finished,
                 BUILD_VERSION, browserOpen, donePrinted, minifyError,
                 gitFailed, globbed, cssoInput, srcLinks>>

\* console.log(`\nBuild ${BUILD_VERSION} is done in ${seconds} seconds.`), and
\* the process ends with nothing left to run.
Finish ==
  /\ pc = "Finish"
  /\ donePrinted' = TRUE
  /\ pc' = "Done"
  /\ exitCode' = 0
  /\ UNCHANGED <<platform, rejectionMode, prior, dst, cur, started, finished,
                 running, BUILD_VERSION, browserOpen, written, minifyError,
                 gitFailed, globbed, cssoInput, srcLinks, manifest, count>>

Next ==
  \/ Main
  \/ generateVersion
  \/ stepBegin
  \/ stepEnd
  \/ CleanupOutputFolder
  \/ GenerateIndexJs
  \/ GenerateStyleCss
  \/ GenerateIndexHtml
  \/ CopyImagesAndFavicons
  \/ GenerateSwJs
  \/ Finish

Spec == Init /\ [][Next]_vars

\* ------------------------------------------------------------- properties
Range(f) == {f[i] : i \in DOMAIN f}
StepEnded(i) == i \in Range(started) /\ i \notin running
LinksOf(page) == SelectSeq(page, LAMBDA l : l.tag = "link")
SameOrigin(l) == StartsWithFile(ResolveHref(l.href))
OtherOrigin(l) == ~SameOrigin(l)

\* C1: whatever the CNAME file of the output directory held before the build
\* (an empty file included), once the cleanup step has completed, and so after
\* the whole build, the file exists with the content it had before.
C1_MarkerSurvives ==
  (CNAME \in DOMAIN prior /\ 1 \in Range(finished))
    => (CNAME \in DOMAIN dst /\ dst[CNAME] = prior[CNAME])

\* C2: when the script minifier reports an error the process exits with
\* status 1, no step after 'generate index.js' starts, and neither index.html
\* nor a copied image or favicon nor sw.js is written in the run.
C2_MinifyErrorAborts ==
  minifyError =>
    /\ pc = "Exited"
    /\ exitCode = 1
    /\ \A i \in Range(started) : i <= 2
    /\ \A p \in written : p[1] \notin {"index.html", "images", "favicons", "sw.js"}
    /\ ~donePrinted

C2_Witness == minifyError /\ pc = "Exited" /\ started = <<1, 2>>

\* C3: whenever the 'generate index.html' step has ended, normally or by a
\* failure, no browser is left open.
C3_BrowserClosed == StepEnded(4) => ~browserOpen

\* C4 as stated: the index.html the step wrote holds exactly one stylesheet
\* link, to /style.css, and no other stylesheet link of the source page.
C4_ExactlyOneStylesheetLink ==
  INDEX_HTML \in written => LinksOf(dst[INDEX_HTML]) = <<Link(StyleHref)>>

\* C4 amended: the index.html the step wrote holds exactly one link to
\* /style.css, standing where the first same-origin (file://) stylesheet link
\* of the source stood; no other same-origin stylesheet link is left; the
\* stylesheet links of another origin or without href are all kept, in order.
\* A source page without a same-origin stylesheet link yields no index.html.
C4_SameOriginLinksReplaced ==
  /\ INDEX_HTML \in written =>
       LET out == LinksOf(dst[INDEX_HTML])
           at == {i \in 1..Len(out) : out[i].href = StyleHref}
           firstSrc == Min({i \in 1..Len(srcLinks) : SameOrigin(srcLinks[i])})
       IN /\ Cardinality(at) = 1
          /\ \A i \in 1..Len(out) : i \in at \/ OtherOrigin(out[i])
          /\ SelectSeq(srcLinks, OtherOrigin) = SelectSeq(out, OtherOrigin)
          /\ at = {firstSrc}
  /\ (StepEnded(4) /\ \A i \in 1..Len(srcLinks) : OtherOrigin(srcLinks[i]))
       => INDEX_HTML \notin DOMAIN dst

C4_Witness ==
  /\ INDEX_HTML \in written
  /\ Cardinality({i \in 1..Len(srcLinks) : SameOrigin(srcLinks[i])}) >= 2
  /\ OtherOrigin(srcLinks[1])
  /\ Len(LinksOf(dst[INDEX_HTML])) = 2

\* C5: the steps begin in the order 1, 2, ..., 6, each at most once and only
\* after the version is resolved; a step begins only when every step before it
\* has ended; at no time are two steps in progress.
C5_StrictOrder ==
  /\ \A i \in 1..Len(started) : started[i] = i
  /\ \A i \in 1..Len(finished) : finished[i] = i
  /\ Len(finished) <= Len(started)
  /\ Len(started) <= Len(finished) + 1
  /\ Cardinality(running) <= 1
  /\ running # {} => (Len(started) = Len(finished) + 1
                       /\ running = {started[Len(started)]})
  /\ started # <<>> => BUILD_VERSION # <<>>
  /\ pc = "Done" => finished = <<1, 2, 3, 4, 5, 6>>

C5_Witness == pc = "Done" /\ started = <<1, 2, 3, 4, 5, 6>>

\* C6: once a step has thrown or a tool has reported an error the process is
\* over with a status that is not 0, nothing is in progress and the completion
\* report is not printed.
C6_FailureExitsNonZero ==
  (pc \in {"Failed", "Exited"} /\ started # <<>>) =>
    /\ exitCode > 0
    /\ running = {}
    /\ ~donePrinted

\* C7: after a successful build the output directory holds index.js,
\* style.css, index.html, images/, favicons/ and sw.js, the CNAME file only if
\* there was one before, and nothing else; but for CNAME every entry was
\* written by this build.
C7_OutputExactlyArtifacts ==
  pc = "Done" =>
    LET artifacts == {INDEX_JS, STYLE_CSS, INDEX_HTML, IMAGES, FAVICONS, SW_JS}
    IN /\ artifacts \subseteq TopLevel(dst)
       /\ TopLevel(dst) \subseteq artifacts \cup {CNAME}
       /\ CNAME \in DOMAIN dst => CNAME \in DOMAIN prior
       /\ \A p \in DOMAIN dst \ {CNAME} : p \in written /\ dst[p] # PriorContent
       /\ \A p \in DOMAIN dst : Len(p) > 1 => p[1] \in {"images", "favicons"}

C7_Witness ==
  /\ pc = "Done"
  /\ <<"images", "old.png">> \in DOMAIN prior
  /\ CNAME \in DOMAIN dst

C8_Chunks ==
  LET paths == globbed.ui \o globbed.pptr \o globbed.third
  IN [i \in 1..Len(paths) |-> ReadStyle(<<"src">> \o paths[i])]

RECURSIVE C8_ChunkStart(_, _)
C8_ChunkStart(cs, i) ==
  IF i = 1 THEN 0 ELSE C8_ChunkStart(cs, i - 1) + Len(cs[i - 1]) + 1

\* C8: the text given to the CSS minifier is the stylesheets matched by
\* ui/**/*.css, then pptr/**/*.css, then third_party/**/*.css, each group in
\* the order glob returned it, with one newline between two stylesheets; the
\* style.css written is the banner followed by the rules of that text in that
\* order.
C8_StyleOrder ==
  STYLE_CSS \in written =>
    LET cs == C8_Chunks
        n == Len(cs)
    IN /\ Len(cssoInput) = IF n = 0 THEN 0 ELSE C8_ChunkStart(cs, n) + Len(cs[n])
       /\ \A i \in 1..n : \A k \in 1..Len(cs[i]) :
            cssoInput[C8_ChunkStart(cs, i) + k] = cs[i][k]
       /\ \A i \in 1..(n - 1) : cssoInput[C8_ChunkStart(cs, i) + Len(cs[i]) + 1] = NL
       /\ dst[STYLE_CSS] = <<CssBanner>> \o SelectSeq(cssoInput, LAMBDA t : t # NL)

C8_Witness ==
  /\ STYLE_CSS \in written
  /\ Len(globbed.ui) = 2 /\ Len(globbed.pptr) = 1 /\ Len(globbed.third) = 1

\* C9: the manifest injected into sw.js lists exactly the files the output
\* directory held when the step ran, but for the CNAME file at its top; the
\* count reported is their number.
C9_ManifestListsStaticFiles ==
  count # -1 =>
    LET static == Files(dst) \ {CNAME, SW_JS}
    IN /\ manifest = static
       /\ CNAME \notin manifest
       /\ count = Cardinality(static)

C9_Witness ==
  /\ count > 0
  /\ CNAME \in DOMAIN dst
  /\ <<"images", "CNAME">> \in manifest

\* C10: on win32, and when the revision lookup of generateVersion fails, the
\* output directory stays as it was: no step begins and nothing is written.
C10_NoStartLeavesOutput ==
  (platform = "win32" \/ gitFailed) =>
    /\ dst = prior
    /\ written = {}
    /\ started = <<>>
    /\ pc \in {"Main", "Exited", "Failed"}

C10_Witness ==
  /\ gitFailed
  /\ pc = "Failed"
  /\ <<"old.html">> \in DOMAIN prior
  /\ CNAME \in DOMAIN dst
====
